---- MODULE Spec2Model ----
(***************************************************************************)
(* Model of src/Oculus.h: the class template Oculus<T> (constructor,       *)
(* destructor, render, getInput, setAngles, isMoving, isUsingDebugHmd and  *)
(* the protected set-up helpers) together with the parts of the HMD        *)
(* runtime and of the graphics API whose state the class reads and writes. *)
(*                                                                         *)
(* The program is single threaded and every member function runs to        *)
(* completion, so one action is one call.  The calls a member function     *)
(* makes into the runtime, the graphics API and the scene are recorded, in *)
(* order, in the variable log (the events of the last call).               *)
(***************************************************************************)
EXTENDS Integers, Sequences, FiniteSets, TLC

\* ------------------------------------------------------------------ bounds
MaxDim == 3          \* per-eye texture sizes reported by the device: 0..MaxDim
MaxAngle == 1        \* angles are fixed-point numbers in 0..MaxAngle
MaxInits == 2        \* executions of ovr_Initialize are counted up to MaxInits
MaxObjects == 2      \* Oculus<T> objects of one scene type alive at a time

\* --------------------------------------------------------- program constants
ovrEye_Left == 0
ovrEye_Right == 1
ovrEye_Count == 2

\* The template instantiations Oculus<T> present in the program.
SceneTypes == {"SceneA", "SceneB"}

\* The Oculus<T> objects of the program: the objects of one scene type are
\* told apart by a slot.  One constructor call passes the single-instance
\* check per scene type at a time, so a second object of a type is a copy
\* (the class does not delete its implicit copy constructor) or an object
\* constructed after the destructor of a copy cleared the flag.
Slots == 1..MaxObjects
Objects == SceneTypes \X Slots
TypeOf(x) == x[1]

Eyes == {ovrEye_Left, ovrEye_Right}
Dims == 0..MaxDim
Sizei == [w : Dims, h : Dims]
AngleVals == 0..MaxAngle
Vec3 == [1..3 -> AngleVals]
Zero3 == <<0, 0, 0>>

\* ovrStatus_* bits of ovrSensorState::StatusFlags, as a set of bit names.
StatusBits == {"OrientationTracked", "PositionTracked", "PositionConnected", "HmdConnected"}
TrackedMask == {"OrientationTracked", "PositionTracked"}

\* C++ integer division (truncation toward zero).
CDiv(a, b) == IF a >= 0 THEN a \div b ELSE -((-a) \div b)

\* One recorded call: its name, the eye it is about (NoEye when none) and its
\* integer arguments.
NoEye == 0 - 1
Ev(name, eye, args) == [ev |-> name, eye |-> eye, args |-> args]

VARIABLES
    alreadyCreated,  \* [SceneTypes -> BOOLEAN]: the static member of each Oculus<T>
    live,            \* [Objects -> BOOLEAN]: the object exists (constructed, not destroyed)
    obj,             \* [Objects -> the data members of the object]
    ovr,             \* the HMD runtime: initialised?, live device handles, counters
    gl,              \* the graphics API: names of the framebuffers, textures, renderbuffers
    log,             \* the calls made by the last member function called
    ret,             \* the last value returned by isMoving / isUsingDebugHmd
    fatal            \* "none", or the assertion that aborted the process

vars == <<alreadyCreated, live, obj, ovr, gl, log, ret, fatal>>

\* ------------------------------------------------------------ object state
Viewport0 == [x |-> 0, y |-> 0, w |-> 0, h |-> 0]
EyeTexture0 == [TextureSize |-> [w |-> 0, h |-> 0], RenderViewport |-> Viewport0, TexId |-> 0]

\* The member initialiser list of the constructor.  Members the list leaves
\* out (hmdDesc_, eyeTexture_, cfg_) are written by the constructor before
\* they are read; frameTiming_ is "indeterminate" until the first BeginFrame
\* writes it; sensorState_ is written and then read inside getInput() only,
\* so it is a value of that call and no part of the object's state.
MemberInit ==
    [ textureId_ |-> 0, FBOId_ |-> 0, depthBufferId_ |-> 0, hmd_ |-> 0,
      windowSize_ |-> [w |-> 0, h |-> 0],
      textureSizeLeft_ |-> [w |-> 0, h |-> 0],
      textureSizeRight_ |-> [w |-> 0, h |-> 0],
      textureSize_ |-> [w |-> 0, h |-> 0],
      angles_ |-> Zero3, dAngles_ |-> Zero3,
      usingDebugHmd_ |-> FALSE, multisampleEnabled_ |-> FALSE,
      EyeRenderOrder |-> <<ovrEye_Left, ovrEye_Right>>,
      eyeTexture_ |-> [e \in Eyes |-> EyeTexture0],
      cfgRTSize |-> [w |-> 0, h |-> 0],
      frameTiming_ |-> "indeterminate" ]

\* ------------------------------------------------------ the pure helpers

\* computeSizes() taking the height of the left eye instead of the larger one.
computeSizes_LeftHeight(o, win, fov) ==
    [o EXCEPT !.windowSize_ = [w |-> win.w, h |-> win.h],
              !.textureSizeLeft_ = fov[ovrEye_Left],
              !.textureSizeRight_ = fov[ovrEye_Right],
              !.textureSize_ =
                  [w |-> fov[ovrEye_Left].w + fov[ovrEye_Right].w,
                   h |-> fov[ovrEye_Left].h]]

\* computeSizes(): the sizes after the call, for an object o, the scene's
\* window size win and the per-eye sizes fov the device recommends.
computeSizes(o, win, fov) ==
    [o EXCEPT !.windowSize_ = [w |-> win.w, h |-> win.h],
              !.textureSizeLeft_ = fov[ovrEye_Left],
              !.textureSizeRight_ = fov[ovrEye_Right],
              !.textureSize_ =
                  [w |-> fov[ovrEye_Left].w + fov[ovrEye_Right].w,
                   h |-> IF fov[ovrEye_Left].h > fov[ovrEye_Right].h
                         THEN fov[ovrEye_Left].h ELSE fov[ovrEye_Right].h]]

\* setEyeTexture() rounding the width of the viewports up instead of down.
setEyeTexture_WidthRoundedUp(o) ==
    LET left == [TextureSize |-> [w |-> o.textureSize_.w, h |-> o.textureSize_.h],
                 RenderViewport |-> [x |-> 0, y |-> 0,
                                     w |-> CDiv(o.textureSize_.w + 1, 2),
                                     h |-> o.textureSize_.h],
                 TexId |-> o.textureId_]
        right == [left EXCEPT !.RenderViewport.x = CDiv(o.textureSize_.w + 1, 2)]
    IN  [o EXCEPT !.eyeTexture_ = [e \in Eyes |-> IF e = ovrEye_Left THEN left ELSE right]]

\* setEyeTexture() placing the right viewport at w/2 instead of (w+1)/2.
setEyeTexture_RightAtHalf(o) ==
    LET left == [TextureSize |-> [w |-> o.textureSize_.w, h |-> o.textureSize_.h],
                 RenderViewport |-> [x |-> 0, y |-> 0,
                                     w |-> CDiv(o.textureSize_.w, 2),
                                     h |-> o.textureSize_.h],
                 TexId |-> o.textureId_]
        right == [left EXCEPT !.RenderViewport.x = CDiv(o.textureSize_.w, 2)]
    IN  [o EXCEPT !.eyeTexture_ = [e \in Eyes |-> IF e = ovrEye_Left THEN left ELSE right]]

\* setEyeTexture(): eyeTexture_[0] is filled in, eyeTexture_[1] is a copy of
\* it with another x position.
setEyeTexture(o) ==
    LET left == [TextureSize |-> [w |-> o.textureSize_.w, h |-> o.textureSize_.h],
                 RenderViewport |-> [x |-> 0, y |-> 0,
                                     w |-> CDiv(o.textureSize_.w, 2),
                                     h |-> o.textureSize_.h],
                 TexId |-> o.textureId_]
        right == [left EXCEPT !.RenderViewport.x = CDiv(o.textureSize_.w + 1, 2)]
    IN  [o EXCEPT !.eyeTexture_ = [e \in Eyes |-> IF e = ovrEye_Left THEN left ELSE right]]

\* setCfg(): the render-target size handed to the runtime is the window size.
setCfg(o) == [o EXCEPT !.cfgRTSize = [w |-> o.windowSize_.w, h |-> o.windowSize_.h]]

\* Utils::isEqual (Utils.h): equality of two floats within a tolerance; on
\* the fixed-point angles of the model, equality.
isEqual(a, b) == a = b

\* isMoving() returning res instead of its negation.
isMoving_NotNegated(o) ==
    LET res0 == FALSE
        res1 == res0 /\ isEqual(o.angles_[1], o.dAngles_[1])
        res2 == res1 /\ isEqual(o.angles_[2], o.dAngles_[2])
        res3 == res2 /\ isEqual(o.angles_[3], o.dAngles_[3])
    IN  res3

\* Oculus<T>::isMoving() const: res starts false and is and-ed with one
\* comparison per axis; the negation of res is returned.  Being const, it
\* does not override the virtual GenericOculus::isMoving(), and the using
\* declaration before it keeps that function visible in Oculus<T>: this body
\* runs only for a call through a const Oculus<T>.
isMoving(o) ==
    LET res0 == FALSE
        res1 == res0 /\ isEqual(o.angles_[1], o.dAngles_[1])
        res2 == res1 /\ isEqual(o.angles_[2], o.dAngles_[2])
        res3 == res2 /\ isEqual(o.angles_[3], o.dAngles_[3])
    IN  ~res3

\* GenericOculus::isMoving(), the function a call of isMoving() on the object
\* or through GenericOculus runs: the capability of the generic device, which
\* reports no motion.
GenericOculus_isMoving(o) == FALSE

\* isUsingDebugHmd()
isUsingDebugHmd(o) == o.usingDebugHmd_

\* setAngles(angles)
setAngles(o, angles) == [o EXCEPT !.angles_ = angles]

\* The test of getInput() on the status flags: a bitwise AND with the two
\* "tracked" bits.
Tracked(flags) == (flags \cap TrackedMask) # {}

\* getInput() reading "oldAngles" after angles_ has been overwritten.
getInput_OldReadLate(o, sensor) ==
    IF Tracked(sensor.flags)
    THEN [o EXCEPT !.angles_ = sensor.angles,
                   !.dAngles_ = [i \in 1..3 |-> sensor.angles[i] - sensor.angles[i]]]
    ELSE o

\* getInput() clearing the delta when the state is not tracked.
getInput_ClearsUntracked(o, sensor) ==
    LET oldAngles == o.angles_
    IN  IF Tracked(sensor.flags)
        THEN [o EXCEPT !.angles_ = sensor.angles,
                       !.dAngles_ = [i \in 1..3 |-> sensor.angles[i] - oldAngles[i]]]
        ELSE [o EXCEPT !.dAngles_ = Zero3]

\* getInput() setting the debug flag when the state is not tracked.
getInput_MarksDebug(o, sensor) ==
    LET oldAngles == o.angles_
    IN  IF Tracked(sensor.flags)
        THEN [o EXCEPT !.angles_ = sensor.angles,
                       !.dAngles_ = [i \in 1..3 |-> sensor.angles[i] - oldAngles[i]]]
        ELSE [o EXCEPT !.usingDebugHmd_ = TRUE]

\* getInput(): the object after the call, for the sensor state the runtime
\* returns (its status flags and the Euler angles of its predicted pose).
getInput(o, sensor) ==
    LET oldAngles == o.angles_
    IN  IF Tracked(sensor.flags)
        THEN [o EXCEPT !.angles_ = sensor.angles,
                       !.dAngles_ = [i \in 1..3 |-> sensor.angles[i] - oldAngles[i]]]
        ELSE o

\* ----------------------------------------------------- runtime and graphics
Handles == 1..Cardinality(Objects)
GLNames == 1..Cardinality(Objects)

Hmd0 == [live |-> FALSE, debug |-> FALSE, frameOpen |-> FALSE,
         configured |-> FALSE, sensorStarted |-> FALSE]

\* A handle the runtime has not handed out (0 when there is none).
FreshHandle(r) ==
    IF \E h \in Handles : ~r.hmds[h].live
    THEN CHOOSE h \in Handles : ~r.hmds[h].live /\ \A k \in Handles : k < h => r.hmds[k].live
    ELSE 0

\* glGen*: an unused name of the kind (0 when the call fails).
FreshName(used, ok) ==
    IF ok /\ (GLNames \ used) # {}
    THEN CHOOSE n \in GLNames \ used : \A k \in GLNames \ used : n <= k
    ELSE 0

\* What the frame-timing member holds when getInput() reads it: nothing yet
\* (no BeginFrame has written it), the token of the frame that is open on the
\* device, or the token of a frame that has ended.
TokenIndeterminate == 0
TokenOpenFrame == 1
TokenEndedFrame == 2
TokenRead(o, r) ==
    IF o.frameTiming_ = "indeterminate" THEN TokenIndeterminate
    ELSE IF o.hmd_ \in Handles /\ r.hmds[o.hmd_].frameOpen THEN TokenOpenFrame
    ELSE TokenEndedFrame

\* Utils::GLGetError(): queries the error flag of the graphics API and reports
\* an error to the log; it returns to its caller whatever the flag holds.
\* The set-up helpers of the constructor query a clear flag; the query after
\* the scene render of each eye reports what the frame says.
GLGetError(eye, error) == Ev("Utils::GLGetError", eye, <<IF error THEN 1 ELSE 0>>)

\* ------------------------------------------------------------ constructor
\* The constructor is a chain of steps over a record c: the object under
\* construction (o), the runtime (ovr), the graphics API (gl), the calls made
\* so far (log) and the assertion that failed, if one did (fatal).  A step
\* does nothing once an assertion has failed: the process has aborted.
\* The environment of one construction is the record env:
\*   real     ovrHmd_Create(0) returns a device
\*   fails    the first call of the environment that fails fatally, or "none"
\*   genTex   glGenTextures writes a name into textureId_
\*   fov      the per-eye sizes ovrHmd_GetFovTextureSize returns
\*   win      the size of the scene's window
\*   order    hmdDesc_.EyeRenderOrder
Step(c, o, r, g, evs) == [c EXCEPT !.o = o, !.ovr = r, !.gl = g, !.log = c.log \o evs]
Abort(c, why) == [c EXCEPT !.fatal = why]

\* assert(!alreadyCreated)
CtorCheckSingle(c, created) ==
    IF created THEN Abort(c, "assert(!alreadyCreated)") ELSE c

\* The runtime initialised by the first constructor of the process only.
CtorInitialize_OnlyFirst(c) ==
    IF c.fatal # "none" \/ c.ovr.inits > 0 THEN c
    ELSE Step(c, c.o, [c.ovr EXCEPT !.initialized = TRUE,
                                  !.inits = IF @ < MaxInits THEN @ + 1 ELSE @], c.gl,
              <<Ev("ovr_Initialize", NoEye, <<>>)>>)

\* ovr_Initialize()
CtorInitialize(c) ==
    IF c.fatal # "none" THEN c
    ELSE Step(c, c.o, [c.ovr EXCEPT !.initialized = TRUE,
                                  !.inits = IF @ < MaxInits THEN @ + 1 ELSE @], c.gl,
              <<Ev("ovr_Initialize", NoEye, <<>>)>>)

\* The device creation with "usingDebugHmd_ = true" left out.
CtorCreateHmd_FlagNotSet(c, env) ==
    IF c.fatal # "none" THEN c
    ELSE LET h == FreshHandle(c.ovr)
             made(debug) == [c.ovr EXCEPT !.hmds[h] = [Hmd0 EXCEPT !.live = TRUE, !.debug = debug]]
         IN  IF env.real
             THEN Step(c, [c.o EXCEPT !.hmd_ = h], made(FALSE), c.gl,
                       <<Ev("ovrHmd_Create", NoEye, <<h>>)>>)
             ELSE IF env.fails # "ovrHmd_CreateDebug"
             THEN Step(c, [c.o EXCEPT !.hmd_ = h], made(TRUE), c.gl,
                       <<Ev("ovrHmd_Create", NoEye, <<0>>), Ev("ovrHmd_CreateDebug", NoEye, <<h>>)>>)
             ELSE Abort(Step(c, [c.o EXCEPT !.hmd_ = 0], c.ovr, c.gl,
                             <<Ev("ovrHmd_Create", NoEye, <<0>>), Ev("ovrHmd_CreateDebug", NoEye, <<0>>)>>),
                        "assert(hmd_)")

\* hmd_ = ovrHmd_Create(0); if(!hmd_) { hmd_ = ovrHmd_CreateDebug(ovrHmd_DK1);
\* usingDebugHmd_ = true; assert(hmd_); }
CtorCreateHmd(c, env) ==
    IF c.fatal # "none" THEN c
    ELSE LET h == FreshHandle(c.ovr)
             made(debug) == [c.ovr EXCEPT !.hmds[h] = [Hmd0 EXCEPT !.live = TRUE, !.debug = debug]]
         IN  IF env.real
             THEN Step(c, [c.o EXCEPT !.hmd_ = h], made(FALSE), c.gl,
                       <<Ev("ovrHmd_Create", NoEye, <<h>>)>>)
             ELSE IF env.fails # "ovrHmd_CreateDebug"
             THEN Step(c, [c.o EXCEPT !.hmd_ = h, !.usingDebugHmd_ = TRUE], made(TRUE), c.gl,
                       <<Ev("ovrHmd_Create", NoEye, <<0>>), Ev("ovrHmd_CreateDebug", NoEye, <<h>>)>>)
             ELSE Abort(Step(c, [c.o EXCEPT !.hmd_ = 0, !.usingDebugHmd_ = TRUE], c.ovr, c.gl,
                             <<Ev("ovrHmd_Create", NoEye, <<0>>), Ev("ovrHmd_CreateDebug", NoEye, <<0>>)>>),
                        "assert(hmd_)")

\* ovrHmd_GetDesc(hmd_, &hmdDesc_)
CtorGetDesc(c, env) ==
    IF c.fatal # "none" THEN c
    ELSE Step(c, [c.o EXCEPT !.EyeRenderOrder = env.order], c.ovr, c.gl,
              <<Ev("ovrHmd_GetDesc", NoEye, <<c.o.hmd_>>)>>)

\* computeSizes()
CtorComputeSizes(c, env) ==
    IF c.fatal # "none" THEN c
    ELSE Step(c, computeSizes(c.o, env.win, env.fov), c.ovr, c.gl,
              <<Ev("scene.windowSize", NoEye, <<env.win.w, env.win.h>>),
                Ev("ovrHmd_GetFovTextureSize", ovrEye_Left,
                   <<c.o.hmd_, env.fov[ovrEye_Left].w, env.fov[ovrEye_Left].h>>),
                Ev("ovrHmd_GetFovTextureSize", ovrEye_Right,
                   <<c.o.hmd_, env.fov[ovrEye_Right].w, env.fov[ovrEye_Right].h>>)>>)

\* initFBO() without its two asserts on the texture size.
initFBO_SizeUnchecked(c, env) ==
    IF c.fatal # "none" THEN c
    ELSE LET id == FreshName(c.gl.fbos, env.fails # "glGenFramebuffers")
             c1 == Step(c, [c.o EXCEPT !.FBOId_ = id],
                        c.ovr, [c.gl EXCEPT !.fbos = @ \cup ({id} \ {0})],
                        <<Ev("glGenFramebuffers", NoEye, <<id>>), GLGetError(NoEye, FALSE)>>)
         IN  IF id = 0 THEN Abort(c1, "assert(FBOId_ != 0)")
             ELSE Step(c1, c1.o, c1.ovr, c1.gl,
                       <<Ev("glBindFramebuffer", NoEye, <<id>>), GLGetError(NoEye, FALSE)>>)

\* initFBO()
initFBO(c, env) ==
    IF c.fatal # "none" THEN c
    ELSE IF c.o.textureSize_.w = 0 THEN Abort(c, "assert(textureSize_.w != 0)")
    ELSE IF c.o.textureSize_.h = 0 THEN Abort(c, "assert(textureSize_.h != 0)")
    ELSE LET id == FreshName(c.gl.fbos, env.fails # "glGenFramebuffers")
             c1 == Step(c, [c.o EXCEPT !.FBOId_ = id],
                        c.ovr, [c.gl EXCEPT !.fbos = @ \cup ({id} \ {0})],
                        <<Ev("glGenFramebuffers", NoEye, <<id>>), GLGetError(NoEye, FALSE)>>)
         IN  IF id = 0 THEN Abort(c1, "assert(FBOId_ != 0)")
             ELSE Step(c1, c1.o, c1.ovr, c1.gl,
                       <<Ev("glBindFramebuffer", NoEye, <<id>>), GLGetError(NoEye, FALSE)>>)

\* initTexture() with the texture allocated at the size of the window.
initTexture_WindowSize(c, env) ==
    IF c.fatal # "none" THEN c
    ELSE LET id == FreshName(c.gl.texs, env.genTex)
         IN  Step(c, [c.o EXCEPT !.textureId_ = id],
                  c.ovr, [c.gl EXCEPT !.texs = @ \cup ({id} \ {0})],
                  <<Ev("glGenTextures", NoEye, <<id>>),
                    Ev("glBindTexture", NoEye, <<id>>),
                    Ev("glTexImage2D", NoEye, <<id, c.o.windowSize_.w, c.o.windowSize_.h>>),
                    Ev("glTexParameteri", NoEye, <<"GL_TEXTURE_MAG_FILTER">>),
                    Ev("glTexParameteri", NoEye, <<"GL_TEXTURE_MIN_FILTER">>),
                    GLGetError(NoEye, FALSE)>>)

\* initTexture(): textureId_ is what glGenTextures leaves in it, an unused
\* name or the 0 of the member initialiser; the function does not check it.
initTexture(c, env) ==
    IF c.fatal # "none" THEN c
    ELSE LET id == FreshName(c.gl.texs, env.genTex)
         IN  Step(c, [c.o EXCEPT !.textureId_ = id],
                  c.ovr, [c.gl EXCEPT !.texs = @ \cup ({id} \ {0})],
                  <<Ev("glGenTextures", NoEye, <<id>>),
                    Ev("glBindTexture", NoEye, <<id>>),
                    Ev("glTexImage2D", NoEye, <<id, c.o.textureSize_.w, c.o.textureSize_.h>>),
                    Ev("glTexParameteri", NoEye, <<"GL_TEXTURE_MAG_FILTER">>),
                    Ev("glTexParameteri", NoEye, <<"GL_TEXTURE_MIN_FILTER">>),
                    GLGetError(NoEye, FALSE)>>)

\* initDepthBuffer(): the answer of glCheckFramebufferStatus is the
\* environment's; with no colour texture (textureId_ = 0) both answers occur.
initDepthBuffer(c, env) ==
    IF c.fatal # "none" THEN c
    ELSE LET id == FreshName(c.gl.rbos, env.fails # "glGenRenderbuffers")
             c1 == Step(c, [c.o EXCEPT !.depthBufferId_ = id],
                        c.ovr, [c.gl EXCEPT !.rbos = @ \cup ({id} \ {0})],
                        <<Ev("glGenRenderbuffers", NoEye, <<id>>), GLGetError(NoEye, FALSE)>>)
             c2 == Step(c1, c1.o, c1.ovr, c1.gl,
                        <<Ev("glBindRenderbuffer", NoEye, <<id>>), GLGetError(NoEye, FALSE),
                          Ev("glRenderbufferStorage", NoEye, <<id, c.o.textureSize_.w, c.o.textureSize_.h>>),
                          GLGetError(NoEye, FALSE),
                          Ev("glFramebufferRenderbuffer", NoEye, <<id>>), GLGetError(NoEye, FALSE),
                          Ev("glFramebufferTexture", NoEye, <<c.o.textureId_>>),
                          GLGetError(NoEye, FALSE),
                          Ev("glDrawBuffers", NoEye, <<"GL_COLOR_ATTACHMENT0">>),
                          GLGetError(NoEye, FALSE),
                          Ev("glCheckFramebufferStatus", NoEye,
                             <<IF env.fails = "glCheckFramebufferStatus" THEN 0 ELSE 1>>)>>)
             \* Unbind...
             c3 == Step(c2, c2.o, c2.ovr, c2.gl,
                        <<Ev("glBindRenderbuffer", NoEye, <<0>>),
                          Ev("glBindTexture", NoEye, <<0>>),
                          Ev("glBindFramebuffer", NoEye, <<0>>),
                          GLGetError(NoEye, FALSE)>>)
         IN  IF id = 0 THEN Abort(c1, "assert(depthBufferId_ != 0)")
             ELSE IF env.fails = "glCheckFramebufferStatus"
             THEN Abort(c2, "assert(check == GL_FRAMEBUFFER_COMPLETE)")
             ELSE c3

\* setCfg() without the assert on the result of SDL_GetWindowWMInfo.
CtorSetCfg_Unchecked(c, env) ==
    IF c.fatal # "none" THEN c
    ELSE Step(c, setCfg(c.o), c.ovr, c.gl,
              <<Ev("SDL_GetWindowWMInfo", NoEye,
                   <<IF env.fails = "SDL_GetWindowWMInfo" THEN 0 ELSE 1>>)>>)

\* setCfg()
CtorSetCfg(c, env) ==
    IF c.fatal # "none" THEN c
    ELSE LET c1 == Step(c, setCfg(c.o), c.ovr, c.gl,
                        <<Ev("SDL_GetWindowWMInfo", NoEye,
                             <<IF env.fails = "SDL_GetWindowWMInfo" THEN 0 ELSE 1>>)>>)
         IN  IF env.fails = "SDL_GetWindowWMInfo" THEN Abort(c1, "assert(infoRes == SDL_TRUE)")
             ELSE c1

\* setEyeTexture()
CtorSetEyeTexture(c) ==
    IF c.fatal # "none" THEN c
    ELSE Step(c, setEyeTexture(c.o), c.ovr, c.gl, <<Ev("setEyeTexture", NoEye, <<>>)>>)

\* ovrHmd_ConfigureRendering(...); assert(configurationRes).  The recorded
\* call holds the texture id of the left and of the right eye texture, the
\* render-target size of the configuration, the size of the left and of the
\* right eye texture, and the result of the call.
CtorConfigureRendering(c, env) ==
    IF c.fatal # "none" THEN c
    ELSE LET ok == env.fails # "ovrHmd_ConfigureRendering"
             c1 == Step(c, c.o, [c.ovr EXCEPT !.hmds[c.o.hmd_].configured = ok], c.gl,
                        <<Ev("ovrHmd_ConfigureRendering", NoEye,
                             <<c.o.eyeTexture_[ovrEye_Left].TexId, c.o.eyeTexture_[ovrEye_Right].TexId,
                               c.o.cfgRTSize.w, c.o.cfgRTSize.h,
                               c.o.eyeTexture_[ovrEye_Left].TextureSize.w,
                               c.o.eyeTexture_[ovrEye_Left].TextureSize.h,
                               c.o.eyeTexture_[ovrEye_Right].TextureSize.w,
                               c.o.eyeTexture_[ovrEye_Right].TextureSize.h,
                               IF ok THEN 1 ELSE 0>>)>>)
         IN  IF ok THEN c1 ELSE Abort(c1, "assert(configurationRes)")

\* ovrHmd_StartSensor(...)
CtorStartSensor(c) ==
    IF c.fatal # "none" THEN c
    ELSE Step(c, c.o, [c.ovr EXCEPT !.hmds[c.o.hmd_].sensorStarted = TRUE], c.gl,
              <<Ev("ovrHmd_StartSensor", NoEye, <<c.o.hmd_>>)>>)

\* setOpenGLState(): the capabilities it disables and enables.
setOpenGLState(c) ==
    IF c.fatal # "none" THEN c
    ELSE Step(c, c.o, c.ovr, c.gl,
              <<Ev("glDisable", NoEye, <<"GL_TEXTURE_2D">>),
                Ev("glEnable", NoEye, <<"GL_DEPTH_TEST">>)>>
              \o (IF c.o.multisampleEnabled_
                  THEN <<Ev("glEnable", NoEye, <<"GL_MULTISAMPLE">>)>> ELSE <<>>))

\* alreadyCreated = true, the last statement of the constructor.
CtorSetFlag(c) ==
    IF c.fatal # "none" THEN c
    ELSE Step(c, c.o, c.ovr, c.gl, <<Ev("alreadyCreated = true", NoEye, <<>>)>>)

\* The whole constructor body, in the order of the source: created is the
\* value of Oculus<T>::alreadyCreated, runtime and graphics the state of the
\* HMD runtime and of the graphics API when the constructor is entered.
Constructor(created, runtime, graphics, env) ==
    LET c0  == [o |-> MemberInit, ovr |-> runtime, gl |-> graphics, log |-> <<>>, fatal |-> "none"]
        c1  == CtorCheckSingle(c0, created)
        c2  == CtorInitialize(c1)
        c3  == CtorCreateHmd(c2, env)
        c4  == CtorGetDesc(c3, env)
        c5  == CtorComputeSizes(c4, env)
        c6  == initFBO(setOpenGLState(c5), env)
        c7  == initTexture(c6, env)
        c8  == initDepthBuffer(c7, env)
        c9  == CtorComputeSizes(c8, env)
        c10 == CtorSetCfg(c9, env)
        c11 == CtorSetEyeTexture(c10)
        c12 == CtorConfigureRendering(c11, env)
        c13 == CtorStartSensor(c12)
    IN  CtorSetFlag(c13)

\* ---------------------------------------------------------------- render
\* One pass of the loop of render(): eyeIndex is the loop counter, r the
\* record [o, ovr, log, pose] (pose is the local array eyeRenderPose).
\* frame.pose[eye] is the pose ovrHmd_BeginEyeRender returns, frame.glError[eye]
\* what Utils::GLGetError reports after the scene has rendered.
\* The eye of a pass taken to be the loop counter.
EyeOf_LoopCounter(o, eyeIndex) == eyeIndex

\* ovrEyeType eye = hmdDesc_.EyeRenderOrder[eyeIndex]
EyeOf(o, eyeIndex) == o.EyeRenderOrder[eyeIndex + 1]

\* The pass of an eye left when the error query reports an error: the eye
\* render is not ended.
RenderEye_LeavesOnError(r, eyeIndex, frame) ==
    LET eye == EyeOf(r.o, eyeIndex)
        pose == [r.pose EXCEPT ![eye] = frame.pose[eye]]
        vp == r.o.eyeTexture_[eye].RenderViewport
        tex == r.o.eyeTexture_[eye]
    IN  [r EXCEPT !.pose = pose,
                  !.log = r.log \o
                      <<Ev("ovrHmd_BeginEyeRender", eye, <<r.o.hmd_, frame.pose[eye]>>),
                        Ev("glViewport", eye, <<vp.x, vp.y, vp.w, vp.h>>),
                        Ev("scene.render", eye, <<pose[eye]>>),
                        GLGetError(eye, frame.glError[eye])>>
                      \o (IF frame.glError[eye] THEN <<>>
                          ELSE <<Ev("ovrHmd_EndEyeRender", eye,
                                    <<r.o.hmd_, pose[eye], tex.TexId, tex.RenderViewport.x,
                                      tex.RenderViewport.y, tex.RenderViewport.w,
                                      tex.RenderViewport.h>>)>>)]

\* The pass of an eye that submits the pose and the eye texture indexed by
\* the loop counter instead of the eye.
RenderEye_SubmitsLoopIndex(r, eyeIndex, frame) ==
    LET eye == EyeOf(r.o, eyeIndex)
        pose == [r.pose EXCEPT ![eye] = frame.pose[eye]]
        vp == r.o.eyeTexture_[eye].RenderViewport
        tex == r.o.eyeTexture_[eyeIndex]
    IN  [r EXCEPT !.pose = pose,
                  !.log = r.log \o
                      <<Ev("ovrHmd_BeginEyeRender", eye, <<r.o.hmd_, frame.pose[eye]>>),
                        Ev("glViewport", eye, <<vp.x, vp.y, vp.w, vp.h>>),
                        Ev("scene.render", eye, <<pose[eye]>>),
                        GLGetError(eye, frame.glError[eye]),
                        Ev("ovrHmd_EndEyeRender", eye,
                           <<r.o.hmd_, pose[eyeIndex], tex.TexId, tex.RenderViewport.x,
                             tex.RenderViewport.y, tex.RenderViewport.w,
                             tex.RenderViewport.h>>)>>]

\* The loop body of render().  The recorded BeginEyeRender holds the device
\* and the pose returned; the recorded EndEyeRender the device, the pose
\* submitted, and the texture id and the viewport of the eye texture submitted.
RenderEye(r, eyeIndex, frame) ==
    LET eye == EyeOf(r.o, eyeIndex)
        pose == [r.pose EXCEPT ![eye] = frame.pose[eye]]
        vp == r.o.eyeTexture_[eye].RenderViewport
        tex == r.o.eyeTexture_[eye]
    IN  [r EXCEPT !.pose = pose,
                  !.log = r.log \o
                      <<Ev("ovrHmd_BeginEyeRender", eye, <<r.o.hmd_, frame.pose[eye]>>),
                        Ev("glViewport", eye, <<vp.x, vp.y, vp.w, vp.h>>),
                        Ev("scene.render", eye, <<pose[eye]>>),
                        GLGetError(eye, frame.glError[eye]),
                        Ev("ovrHmd_EndEyeRender", eye,
                           <<r.o.hmd_, pose[eye], tex.TexId, tex.RenderViewport.x,
                             tex.RenderViewport.y, tex.RenderViewport.w,
                             tex.RenderViewport.h>>)>>]

RECURSIVE RenderEyes(_, _, _)
RenderEyes(r, eyeIndex, frame) ==
    IF eyeIndex < ovrEye_Count
    THEN RenderEyes(RenderEye(r, eyeIndex, frame), eyeIndex + 1, frame)
    ELSE r

\* The call of getInput(): the read of frameTiming_ and of the sensor state,
\* then the update of the angles.  The recorded call holds the device, the
\* token read, the orientation-tracked and position-tracked bits of the
\* status flags returned and the angles of the predicted pose.
CallGetInput(r, sensor) ==
    [r EXCEPT !.o = getInput(r.o, sensor),
              !.log = r.log \o <<Ev("ovrHmd_GetSensorState", NoEye,
                                    <<r.o.hmd_, TokenRead(r.o, r.ovr),
                                      IF "OrientationTracked" \in sensor.flags THEN 1 ELSE 0,
                                      IF "PositionTracked" \in sensor.flags THEN 1 ELSE 0,
                                      sensor.angles[1], sensor.angles[2], sensor.angles[3]>>)>>]

\* render(), whole.
render(o, runtime, frame) ==
    LET h == o.hmd_
        r0 == [o |-> o, ovr |-> runtime, pose |-> [e \in Eyes |-> 0],
               log |-> <<Ev("glBindBuffer", NoEye, <<0>>), Ev("glBindBuffer", NoEye, <<0>>),
                         Ev("glUseProgram", NoEye, <<0>>)>>]
        r1 == [r0 EXCEPT !.o.frameTiming_ = "frame",
                         !.ovr.hmds[h].frameOpen = TRUE,
                         !.log = @ \o <<Ev("ovrHmd_BeginFrame", NoEye, <<h>>),
                                        Ev("glBindFramebuffer", NoEye, <<o.FBOId_>>),
                                        Ev("glClearColor", NoEye, <<0, 0, 0, 1>>),
                                        Ev("glClear", NoEye, <<>>)>>]
        r2 == CallGetInput(r1, frame.sensor)
        r3 == RenderEyes(r2, 0, frame)
    IN  [r3 EXCEPT !.ovr.hmds[h].frameOpen = FALSE,
                   !.log = @ \o <<Ev("ovrHmd_EndFrame", NoEye, <<h>>)>>]

\* ------------------------------------------------------- copy constructor
\* The implicitly declared Oculus(const Oculus&): a member-wise copy of the
\* object o.
CopyConstructor(o) == o

\* ------------------------------------------------------------ destructor
\* The destructor shutting the runtime down before it destroys the device.
Destructor_ShutdownFirst(o, runtime, graphics) ==
    [log |-> <<Ev("glDeleteFramebuffers", NoEye, <<o.FBOId_>>),
               Ev("glDeleteTextures", NoEye, <<o.textureId_>>),
               Ev("glDeleteRenderbuffers", NoEye, <<o.depthBufferId_>>),
               Ev("ovr_Shutdown", NoEye, <<>>),
               Ev("ovrHmd_Destroy", NoEye, <<o.hmd_>>),
               Ev("alreadyCreated = false", NoEye, <<>>)>>,
     gl |-> [fbos |-> graphics.fbos \ {o.FBOId_}, texs |-> graphics.texs \ {o.textureId_},
             rbos |-> graphics.rbos \ {o.depthBufferId_}],
     ovr |-> [runtime EXCEPT !.hmds[o.hmd_] = Hmd0, !.initialized = FALSE],
     created |-> FALSE]

\* The body of ~Oculus() on the object o: the calls it makes in their order,
\* the state of the graphics API and of the runtime it leaves, and the value
\* it leaves in Oculus<T>::alreadyCreated.  It has no assert and no return.
Destructor(o, runtime, graphics) ==
    [log |-> <<Ev("glDeleteFramebuffers", NoEye, <<o.FBOId_>>),
               Ev("glDeleteTextures", NoEye, <<o.textureId_>>),
               Ev("glDeleteRenderbuffers", NoEye, <<o.depthBufferId_>>),
               Ev("ovrHmd_Destroy", NoEye, <<o.hmd_>>),
               Ev("ovr_Shutdown", NoEye, <<>>),
               Ev("alreadyCreated = false", NoEye, <<>>)>>,
     gl |-> [fbos |-> graphics.fbos \ {o.FBOId_}, texs |-> graphics.texs \ {o.textureId_},
             rbos |-> graphics.rbos \ {o.depthBufferId_}],
     ovr |-> [runtime EXCEPT !.hmds[o.hmd_] = Hmd0, !.initialized = FALSE],
     created |-> FALSE]

\* ---------------------------------------------------------------- actions
NoRet == [op |-> "void", T |-> "", val |-> FALSE]

\* The process at start: no object, the runtime not initialised.
Ovr0 == [initialized |-> FALSE, inits |-> 0, hmds |-> [h \in Handles |-> Hmd0]]
Gl0 == [fbos |-> {}, texs |-> {}, rbos |-> {}]

Init ==
    /\ alreadyCreated = [T \in SceneTypes |-> FALSE]
    /\ live = [x \in Objects |-> FALSE]
    /\ obj = [x \in Objects |-> MemberInit]
    /\ ovr = Ovr0
    /\ gl = Gl0
    /\ log = <<>>
    /\ ret = NoRet
    /\ fatal = "none"

\* The slots of the scene type T that hold no object, and the one a new
\* object of T takes.
FreeSlots(T) == {s \in Slots : ~live[<<T, s>>]}
NewObject(T) == <<T, CHOOSE s \in FreeSlots(T) : \A t \in FreeSlots(T) : s <= t>>

\* Oculus<T>::Oculus(scene) in the environment env.
Construct(T, env) ==
    /\ fatal = "none"
    /\ LET c == Constructor(alreadyCreated[T], ovr, gl, env)
       IN  /\ c.fatal = "none" => FreeSlots(T) # {}
           /\ fatal' = c.fatal
           /\ log' = c.log
           /\ ovr' = c.ovr
           /\ gl' = c.gl
           /\ IF c.fatal = "none"
              THEN /\ obj' = [obj EXCEPT ![NewObject(T)] = c.o]
                   /\ live' = [live EXCEPT ![NewObject(T)] = TRUE]
                   /\ alreadyCreated' = [alreadyCreated EXCEPT ![T] = TRUE]
              ELSE UNCHANGED <<obj, live, alreadyCreated>>
    /\ ret' = NoRet

\* Oculus<T>::Oculus(const Oculus<T>&), the implicitly declared copy
\* constructor, on the object x: the new object gets a copy of every data
\* member of x (its device handle and its graphics names included).  No
\* statement of the user-written constructor runs: no single-instance check,
\* no call into the runtime or the graphics API, no write of alreadyCreated.
Copy(x) ==
    /\ fatal = "none"
    /\ live[x]
    /\ FreeSlots(TypeOf(x)) # {}
    /\ obj' = [obj EXCEPT ![NewObject(TypeOf(x))] = CopyConstructor(obj[x])]
    /\ live' = [live EXCEPT ![NewObject(TypeOf(x))] = TRUE]
    /\ log' = <<>>
    /\ ret' = NoRet
    /\ UNCHANGED <<alreadyCreated, ovr, gl, fatal>>

\* Oculus<T>::~Oculus() on the object x.
Destroy(x) ==
    /\ fatal = "none"
    /\ live[x]
    /\ LET d == Destructor(obj[x], ovr, gl)
       IN  /\ log' = d.log
           /\ gl' = d.gl
           /\ ovr' = d.ovr
           /\ alreadyCreated' = [alreadyCreated EXCEPT ![TypeOf(x)] = d.created]
    /\ live' = [live EXCEPT ![x] = FALSE]
    /\ obj' = [obj EXCEPT ![x] = MemberInit]
    /\ ret' = NoRet
    /\ UNCHANGED fatal

\* Oculus<T>::render()
Render(x, frame) ==
    /\ fatal = "none"
    /\ live[x]
    /\ LET r == render(obj[x], ovr, frame)
       IN  /\ obj' = [obj EXCEPT ![x] = r.o]
           /\ ovr' = r.ovr
           /\ log' = r.log
    /\ ret' = NoRet
    /\ UNCHANGED <<alreadyCreated, live, gl, fatal>>

\* Oculus<T>::getInput(), called by the user of the class.
GetInput(x, sensor) ==
    /\ fatal = "none"
    /\ live[x]
    /\ LET r == CallGetInput([o |-> obj[x], ovr |-> ovr, log |-> <<>>], sensor)
       IN  /\ obj' = [obj EXCEPT ![x] = r.o]
           /\ log' = r.log
    /\ ret' = NoRet
    /\ UNCHANGED <<alreadyCreated, live, ovr, gl, fatal>>

\* Oculus<T>::setAngles(angles)
SetAngles(x, angles) ==
    /\ fatal = "none"
    /\ live[x]
    /\ obj' = [obj EXCEPT ![x] = setAngles(obj[x], angles)]
    /\ log' = <<>>
    /\ ret' = NoRet
    /\ UNCHANGED <<alreadyCreated, live, ovr, gl, fatal>>

\* A call of isMoving().  Overload resolution picks the function by the
\* constness of the object expression: on the object itself, through
\* Oculus<T>& or through GenericOculus* (how = "object") it is
\* GenericOculus::isMoving(); through a const Oculus<T> (how = "const") it is
\* Oculus<T>::isMoving() const.
CallKinds == {"object", "const"}
IsMoving(x, how) ==
    /\ fatal = "none"
    /\ live[x]
    /\ ret' = IF how = "const"
              THEN [op |-> "isMoving const", T |-> TypeOf(x), val |-> isMoving(obj[x])]
              ELSE [op |-> "isMoving", T |-> TypeOf(x), val |-> GenericOculus_isMoving(obj[x])]
    /\ log' = <<>>
    /\ UNCHANGED <<alreadyCreated, live, obj, ovr, gl, fatal>>

\* Oculus<T>::isUsingDebugHmd()
IsUsingDebugHmd(x) ==
    /\ fatal = "none"
    /\ live[x]
    /\ ret' = [op |-> "isUsingDebugHmd", T |-> TypeOf(x), val |-> isUsingDebugHmd(obj[x])]
    /\ log' = <<>>
    /\ UNCHANGED <<alreadyCreated, live, obj, ovr, gl, fatal>>

\* ------------------------------------------------------------ environments
Orders == {<<ovrEye_Left, ovrEye_Right>>, <<ovrEye_Right, ovrEye_Left>>}
FailPoints == {"none", "ovrHmd_CreateDebug", "glGenFramebuffers", "glGenRenderbuffers",
               "glCheckFramebufferStatus", "SDL_GetWindowWMInfo", "ovrHmd_ConfigureRendering"}
Fov(wl, hl, wr, hr) ==
    [e \in Eyes |-> IF e = ovrEye_Left THEN [w |-> wl, h |-> hl] ELSE [w |-> wr, h |-> hr]]
Window(w, h) == [w |-> w, h |-> h]
Sensor(flags, angles) == [flags |-> flags, angles |-> angles]
SamePose == [e \in Eyes |-> 1]
OwnPose == [e \in Eyes |-> e + 1]

\* Spec: a program with one instantiation, Oculus<SceneA>, and every member
\* function.  Environments: every failure point, an even and an odd combined
\* width, zero sizes, both eye orders; sensor states with and without
\* tracking.
TheScene == "SceneA"
TheObjects == {x \in Objects : TypeOf(x) = TheScene}
SpecFovs == {Fov(1, 1, 1, 1), Fov(1, 1, 2, 2), Fov(0, 0, 0, 0), Fov(1, 0, 1, 0)}
SpecEnvs == [real : BOOLEAN, fails : FailPoints, genTex : BOOLEAN, fov : SpecFovs,
             win : {Window(4, 3)}, order : Orders]
SpecAngles == {Zero3, <<1, 0, 0>>}
SpecSensors == {Sensor({}, Zero3), Sensor({"HmdConnected"}, Zero3)}
                   \cup [flags : {{"OrientationTracked"}, {"PositionTracked", "HmdConnected"}},
                         angles : SpecAngles]
SpecFrames == [sensor : SpecSensors, pose : {SamePose, OwnPose}, glError : [Eyes -> BOOLEAN]]

Next ==
    \/ \E env \in SpecEnvs : Construct(TheScene, env)
    \/ \E x \in TheObjects : Destroy(x)
    \/ \E x \in TheObjects, frame \in SpecFrames : Render(x, frame)
    \/ \E x \in TheObjects, sensor \in SpecSensors : GetInput(x, sensor)
    \/ \E x \in TheObjects, angles \in SpecAngles : SetAngles(x, angles)
    \/ \E x \in TheObjects, how \in CallKinds : IsMoving(x, how)
    \/ \E x \in TheObjects : IsUsingDebugHmd(x)

Spec == Init /\ [][Next]_vars

\* SpecTypes: a program with two instantiations, Oculus<SceneA> and
\* Oculus<SceneB>, in one environment per kind of device.
TypesEnvs == [real : BOOLEAN, fails : {"none"}, genTex : {TRUE}, fov : {Fov(1, 1, 1, 1)},
              win : {Window(4, 3)}, order : {<<ovrEye_Left, ovrEye_Right>>}]
TypesSensors == {Sensor({}, Zero3), Sensor({"OrientationTracked"}, <<1, 0, 0>>)}
TypesFrames == [sensor : TypesSensors, pose : {OwnPose}, glError : {[e \in Eyes |-> FALSE]}]

NextTypes ==
    \/ \E T \in SceneTypes, env \in TypesEnvs : Construct(T, env)
    \/ \E x \in Objects : Destroy(x)
    \/ \E x \in Objects, frame \in TypesFrames : Render(x, frame)
    \/ \E x \in Objects, sensor \in TypesSensors : GetInput(x, sensor)
    \/ \E x \in Objects : IsUsingDebugHmd(x)

SpecTypes == Init /\ [][NextTypes]_vars

\* SpecTrack: one instance, constructed, and the orientation tracker on every
\* angle vector.  The pose of a sensor state without tracking is not read; it
\* is drawn from two vectors.
TrackEnvs == [real : BOOLEAN, fails : {"none"}, genTex : {TRUE}, fov : {Fov(1, 1, 1, 1)},
              win : {Window(4, 3)}, order : {<<ovrEye_Left, ovrEye_Right>>}]
TrackSensors ==
    [flags : {{"OrientationTracked"}, {"PositionTracked", "HmdConnected"}},
     angles : Vec3]
    \cup [flags : {{}, {"PositionConnected", "HmdConnected"}},
          angles : {Zero3, [i \in 1..3 |-> MaxAngle]}]

\* The state after Oculus<SceneA> has been constructed in a process at start.
InitTrack ==
    \E env \in TrackEnvs :
        LET c == Constructor(FALSE, Ovr0, Gl0, env)
        IN  /\ alreadyCreated = [T \in SceneTypes |-> T = TheScene]
            /\ live = [x \in Objects |-> x = <<TheScene, 1>>]
            /\ obj = [x \in Objects |-> IF x = <<TheScene, 1>> THEN c.o ELSE MemberInit]
            /\ ovr = c.ovr
            /\ gl = c.gl
            /\ log = c.log
            /\ ret = NoRet
            /\ fatal = "none"

NextTrack ==
    \/ \E x \in TheObjects, sensor \in TrackSensors : GetInput(x, sensor)
    \/ \E x \in TheObjects, angles \in Vec3 : SetAngles(x, angles)
    \/ \E x \in TheObjects, how \in CallKinds : IsMoving(x, how)

SpecTrack == InitTrack /\ [][NextTrack]_vars

\* SpecSizes: one instance constructed and destroyed, on every pair of
\* per-eye sizes the device can report and two window sizes.
SizesEnvs == [real : {TRUE}, fails : {"none"}, genTex : {TRUE}, fov : [Eyes -> Sizei],
              win : {Window(4, 3), Window(2, 2)}, order : {<<ovrEye_Left, ovrEye_Right>>}]

NextSizes ==
    \/ \E env \in SizesEnvs : Construct(TheScene, env)
    \/ \E x \in TheObjects : Destroy(x)

SpecSizes == Init /\ [][NextSizes]_vars

\* SpecCopies: one instantiation whose objects are constructed, copied,
\* rendered and destroyed in any order: an object and its copies hold the
\* same device handle and the same graphics names.
CopiesEnvs == [real : BOOLEAN, fails : {"none"}, genTex : {TRUE}, fov : {Fov(1, 1, 1, 1)},
               win : {Window(4, 3)}, order : {<<ovrEye_Left, ovrEye_Right>>}]
CopiesFrames == [sensor : {Sensor({"OrientationTracked"}, <<1, 0, 0>>)}, pose : {OwnPose},
                 glError : {[e \in Eyes |-> FALSE]}]

NextCopies ==
    \/ \E env \in CopiesEnvs : Construct(TheScene, env)
    \/ \E x \in TheObjects : Copy(x)
    \/ \E x \in TheObjects : Destroy(x)
    \/ \E x \in TheObjects, frame \in CopiesFrames : Render(x, frame)

SpecCopies == Init /\ [][NextCopies]_vars

\* ================================================================= claims
\* The places of the calls named name in a sequence of recorded calls.
Places(l, name) == {i \in 1..Len(l) : l[i].ev = name}
HasEv(l, name) == Places(l, name) # {}
\* The instantiation owning the device h, when its object is live.
Owns(x, h) == live[x] /\ obj[x].hmd_ = h
LiveHandles == {h \in Handles : ovr.hmds[h].live}
\* The last call constructed an object (the constructor ran to its end).
Constructed == HasEv(log, "ovrHmd_StartSensor")
\* The last call was render() on the device of the object x.
Rendered(x) ==
    /\ HasEv(log, "ovrHmd_BeginFrame")
    /\ \A i \in Places(log, "ovrHmd_BeginFrame") : Owns(x, log[i].args[1])
\* The recorded call e is a sample of the sensors of device h; tracked or not.
IsSample(e, h) == e.ev = "ovrHmd_GetSensorState" /\ e.args[1] = h
SampleTracked(e) == e.args[3] = 1 \/ e.args[4] = 1
SampleAngles(e) == <<e.args[5], e.args[6], e.args[7]>>

\* C1: at most one device handle is live at any time, whatever scene type
\* each Oculus object is instantiated with.
C1_AtMostOneLiveHandle == Cardinality(LiveHandles) <= 1

\* C2: every render() makes its calls in the order BeginFrame, bind
\* framebuffer, clear, one sensor sample, then for each eye in the order of
\* EyeRenderOrder BeginEyeRender, viewport of that eye, scene render,
\* EndEyeRender, then EndFrame; each eye once, the scene twice.
FrameCalls == {"ovrHmd_BeginFrame", "glBindFramebuffer", "glClear", "ovrHmd_GetSensorState",
               "ovrHmd_BeginEyeRender", "glViewport", "scene.render", "ovrHmd_EndEyeRender",
               "ovrHmd_EndFrame"}
Shape(l) == [i \in 1..Len(l) |-> <<l[i].ev, l[i].eye>>]
EyePass(e) == << <<"ovrHmd_BeginEyeRender", e>>, <<"glViewport", e>>,
                 <<"scene.render", e>>, <<"ovrHmd_EndEyeRender", e>> >>
ExpectedFrame(order) ==
    << <<"ovrHmd_BeginFrame", NoEye>>, <<"glBindFramebuffer", NoEye>>, <<"glClear", NoEye>>,
       <<"ovrHmd_GetSensorState", NoEye>> >>
    \o EyePass(order[1]) \o EyePass(order[2]) \o << <<"ovrHmd_EndFrame", NoEye>> >>
C2_FrameOrder ==
    \A x \in Objects :
        Rendered(x) =>
            LET calls == SelectSeq(log, LAMBDA e : e.ev \in FrameCalls)
                vp(e) == obj[x].eyeTexture_[e].RenderViewport
            IN  /\ Shape(calls) = ExpectedFrame(obj[x].EyeRenderOrder)
                /\ \A i \in Places(log, "glViewport") :
                       log[i].args = <<vp(log[i].eye).x, vp(log[i].eye).y,
                                       vp(log[i].eye).w, vp(log[i].eye).h>>
                /\ Cardinality(Places(log, "scene.render")) = 2
                /\ \A e \in Eyes :
                       Cardinality({i \in Places(log, "ovrHmd_BeginEyeRender") : log[i].eye = e}) = 1
\* A frame has been rendered on a device whose order is right eye, then left.
C2_Witness ==
    \E x \in Objects :
        Rendered(x) /\ obj[x].EyeRenderOrder = <<ovrEye_Right, ovrEye_Left>>

\* C3: after a successful construction isUsingDebugHmd() is true exactly when
\* the creation of the real device failed and a debug device was created; when
\* the real device was created no debug device is created.
C3_DebugFallback ==
    \A x \in Objects :
        live[x] =>
            /\ obj[x].hmd_ \in LiveHandles
            /\ obj[x].usingDebugHmd_ = ovr.hmds[obj[x].hmd_].debug
            /\ (ret.op = "isUsingDebugHmd" /\ ret.T = TypeOf(x)) => ret.val = ovr.hmds[obj[x].hmd_].debug
            /\ Constructed =>
                   \A i \in Places(log, "ovrHmd_Create") :
                       /\ log[i].args[1] # 0 =>
                              ~HasEv(log, "ovrHmd_CreateDebug") /\ ~obj[x].usingDebugHmd_
                       /\ log[i].args[1] = 0 =>
                              HasEv(log, "ovrHmd_CreateDebug") /\ obj[x].usingDebugHmd_
\* isUsingDebugHmd() has returned true on an object that fell back to the
\* debug device.
C3_Witness ==
    \E x \in Objects :
        live[x] /\ ret.op = "isUsingDebugHmd" /\ ret.T = TypeOf(x) /\ ret.val
                /\ ovr.hmds[obj[x].hmd_].debug

\* C4 as claimed: the widths of the two viewports add up to the combined
\* width, for even and for odd widths, and both have the combined height.
LeftVp(x) == obj[x].eyeTexture_[ovrEye_Left].RenderViewport
RightVp(x) == obj[x].eyeTexture_[ovrEye_Right].RenderViewport
C4_WidthsSumToCombined ==
    \A x \in Objects :
        live[x] => /\ LeftVp(x).w + RightVp(x).w = obj[x].textureSize_.w
                   /\ LeftVp(x).h = obj[x].textureSize_.h
                   /\ RightVp(x).h = obj[x].textureSize_.h
\* C4 amended: the widths of the two viewports add up to the combined width
\* when it is even and to the combined width minus one when it is odd; both
\* viewports have the combined height.
C4_WidthsSumAmended ==
    \A x \in Objects :
        live[x] => /\ LeftVp(x).w + RightVp(x).w =
                          IF obj[x].textureSize_.w % 2 = 0
                          THEN obj[x].textureSize_.w ELSE obj[x].textureSize_.w - 1
                   /\ LeftVp(x).h = obj[x].textureSize_.h
                   /\ RightVp(x).h = obj[x].textureSize_.h
\* An object with an odd combined width of three or more.
C4_Witness ==
    \E x \in Objects :
        live[x] /\ obj[x].textureSize_.w % 2 = 1 /\ obj[x].textureSize_.w >= 3

\* C5: the left viewport is (0, 0, floor(w/2), h), the right viewport is
\* (ceil(w/2), 0, w - ceil(w/2), h); they do not overlap and lie inside the
\* combined texture.
Floor2(w) == CHOOSE k \in 0..w : 2 * k <= w /\ w < 2 * k + 2
Ceil2(w) == CHOOSE k \in 0..w : 2 * k >= w /\ w > 2 * k - 2
C5_ViewportFormula ==
    \A x \in Objects :
        live[x] =>
            LET w == obj[x].textureSize_.w
                h == obj[x].textureSize_.h
            IN  /\ LeftVp(x) = [x |-> 0, y |-> 0, w |-> Floor2(w), h |-> h]
                /\ RightVp(x) = [x |-> Ceil2(w), y |-> 0, w |-> w - Ceil2(w), h |-> h]
                /\ LeftVp(x).x + LeftVp(x).w <= RightVp(x).x
                /\ \A v \in {LeftVp(x), RightVp(x)} :
                       v.x >= 0 /\ v.y >= 0 /\ v.x + v.w <= w /\ v.y + v.h <= h
\* An object with an odd combined width and a height of two or more.
C5_Witness ==
    \E x \in Objects :
        live[x] /\ obj[x].textureSize_.w % 2 = 1 /\ obj[x].textureSize_.h >= 2
                /\ RightVp(x).x > LeftVp(x).w

\* C6: the combined size is (wL + wR, max(hL, hR)) for the per-eye sizes the
\* device reports, whatever the size of the window.
Larger(a, b) == CHOOSE m \in {a, b} : m >= a /\ m >= b
Reported(eye) ==
    LET i == CHOOSE i \in Places(log, "ovrHmd_GetFovTextureSize") : log[i].eye = eye
    IN  [w |-> log[i].args[2], h |-> log[i].args[3]]
C6_CombinedSize ==
    \A x \in Objects :
        (live[x] /\ Constructed) =>
            obj[x].textureSize_ =
                [w |-> Reported(ovrEye_Left).w + Reported(ovrEye_Right).w,
                 h |-> Larger(Reported(ovrEye_Left).h, Reported(ovrEye_Right).h)]
\* An object constructed in the small window, on a device whose right eye is
\* the higher one and whose combined size is not the window's.
C6_Witness ==
    \E x \in Objects :
        /\ live[x] /\ Constructed
        /\ obj[x].windowSize_ = Window(2, 2)
        /\ Reported(ovrEye_Left).h < Reported(ovrEye_Right).h
        /\ obj[x].textureSize_.w > 2

\* The calls of isMoving(), whichever function they run.
IsMovingOps == {"isMoving", "isMoving const"}
\* C7 as claimed: isMoving() returns false for every angular state.
C7_AlwaysFalse == ret.op \in IsMovingOps => ret.val = FALSE
\* C7 amended: the result of isMoving() is constant for every angular state,
\* but which constant depends on the function the call runs: a call on the
\* object or through GenericOculus returns false, and Oculus<T>::isMoving()
\* const, run through a const Oculus<T>, returns true (res stays false and
\* its negation is returned).
C7_ConstantPerFunction ==
    /\ ret.op = "isMoving const" => ret.val = TRUE
    /\ ret.op = "isMoving" => ret.val = FALSE
\* Oculus<T>::isMoving() const has returned on an object whose angles_ and
\* dAngles_ are equal on every axis and not zero.
C7_Witness ==
    \E x \in Objects :
        /\ live[x] /\ ret.op = "isMoving const" /\ ret.T = TypeOf(x)
        /\ obj[x].angles_ = obj[x].dAngles_ /\ obj[x].angles_ # Zero3

\* C8: isMoving(), called after a tracked sample, returns false when the
\* sample left the three angles unchanged and true when it changed one.
C8_Step ==
    \A x \in Objects :
        ( /\ live[x]
          /\ Len(log) = 1 /\ IsSample(log[1], obj[x].hmd_) /\ SampleTracked(log[1])
          /\ ret'.op \in IsMovingOps /\ ret'.T = TypeOf(x) )
        => (ret'.val <=> obj[x].dAngles_ # Zero3)
\* C8: every isMoving() called right after a tracked sample returns whether
\* that sample changed an angle.
C8_MovingIffAnglesChanged == [][C8_Step]_vars

\* C9: a getInput() that samples a tracked state leaves in angles_ the angles
\* sampled and in dAngles_ their difference to angles_ as it was before the
\* call, axis by axis.
C9_Step ==
    \A x \in Objects :
        live[x] =>
            \A i \in 1..Len(log') :
                (IsSample(log'[i], obj[x].hmd_) /\ SampleTracked(log'[i])) =>
                    /\ obj'[x].angles_ = SampleAngles(log'[i])
                    /\ \A k \in 1..3 :
                           obj'[x].dAngles_[k] = SampleAngles(log'[i])[k] - obj[x].angles_[k]
\* C9: every call that takes a tracked sample leaves the sampled angles and
\* their delta to the previous angles.
C9_OrientationDelta == [][C9_Step]_vars
\* A tracked sample has been taken whose delta is negative on one axis and
\* positive on another.
C9_Witness ==
    \E x \in Objects :
        /\ live[x] /\ Len(log) = 1 /\ IsSample(log[1], obj[x].hmd_) /\ SampleTracked(log[1])
        /\ obj[x].angles_ = SampleAngles(log[1])
        /\ obj[x].dAngles_[1] < 0 /\ obj[x].dAngles_[2] > 0

\* C10: a getInput() that samples a state with neither tracked flag leaves
\* angles_ and dAngles_ as they were and does not abort.
C10_Step ==
    \A x \in Objects :
        live[x] =>
            \A i \in 1..Len(log') :
                (IsSample(log'[i], obj[x].hmd_) /\ ~SampleTracked(log'[i])) =>
                    /\ obj'[x].angles_ = obj[x].angles_
                    /\ obj'[x].dAngles_ = obj[x].dAngles_
                    /\ fatal' = "none" /\ live'[x]
\* C10: every call that takes an untracked sample keeps angles_ and dAngles_
\* and does not abort.
C10_UntrackedKeepsAngles == [][C10_Step]_vars
\* An untracked sample has been taken on a debug device whose angles_ were
\* not zero and differ from the pose of the sample.
C10_Witness ==
    \E x \in Objects :
        /\ live[x] /\ Len(log) = 1 /\ IsSample(log[1], obj[x].hmd_) /\ ~SampleTracked(log[1])
        /\ obj[x].usingDebugHmd_
        /\ obj[x].angles_ # Zero3
        /\ SampleAngles(log[1]) # obj[x].angles_

\* C11: the runtime is initialised once: over any sequence of constructions
\* and destructions ovr_Initialize is never executed a second time.
C11_InitializedOnce == ovr.inits <= 1
\* A call that reaches the device creation has executed ovr_Initialize exactly
\* once, before it, and has left the runtime initialised; a call that does
\* not execute ovr_Initialize leaves the count of initialisations alone.
C11_Step ==
    /\ HasEv(log', "ovrHmd_Create") =>
           /\ Cardinality(Places(log', "ovr_Initialize")) = 1
           /\ \A i \in Places(log', "ovr_Initialize") :
                  \A j \in Places(log', "ovrHmd_Create") : i < j
           /\ ovr.inits < MaxInits => ovr'.inits = ovr.inits + 1
           /\ ovr'.initialized
    /\ ~HasEv(log', "ovr_Initialize") => ovr'.inits = ovr.inits
\* C11 (amended): the runtime is initialised once per construction: every
\* constructor that passes the single-instance check executes ovr_Initialize
\* exactly once before it creates the device, a construction after a
\* destruction included, and no other member function executes it.
C11_InitializedPerConstruction == [][C11_Step]_vars
\* An object has been constructed by the second initialisation of the runtime.
C11_Witness ==
    \E x \in Objects : live[x] /\ Constructed /\ ovr.inits = 2 /\ ovr.initialized

\* C12: the destructor deletes the framebuffer, the colour texture and the
\* depth buffer, destroys the device handle, shuts the runtime down and then
\* clears the single-instance flag, in this order and without a fatal path;
\* a construction that follows it passes the single-instance check.
ReleaseCalls(o) ==
    <<Ev("glDeleteFramebuffers", NoEye, <<o.FBOId_>>),
      Ev("glDeleteTextures", NoEye, <<o.textureId_>>),
      Ev("glDeleteRenderbuffers", NoEye, <<o.depthBufferId_>>),
      Ev("ovrHmd_Destroy", NoEye, <<o.hmd_>>),
      Ev("ovr_Shutdown", NoEye, <<>>),
      Ev("alreadyCreated = false", NoEye, <<>>)>>
C12_Step ==
    /\ \A x \in Objects :
           (live[x] /\ ~live'[x]) =>
               /\ log' = ReleaseCalls(obj[x])
               /\ fatal' = "none"
               /\ ~alreadyCreated'[TypeOf(x)]
               /\ ~ovr'.hmds[obj[x].hmd_].live
               /\ ~ovr'.initialized
               /\ obj[x].FBOId_ \notin gl'.fbos
               /\ obj[x].textureId_ \notin gl'.texs
               /\ obj[x].depthBufferId_ \notin gl'.rbos
    /\ HasEv(log, "ovr_Shutdown") =>
           fatal' # "assert(!alreadyCreated)"
\* C12: every destruction makes the release calls in the claimed order, ends
\* by clearing the flag and is not fatal, and a construction that follows it
\* passes the single-instance check.
C12_ReleaseOrder == [][C12_Step]_vars
\* The destructor has run on one of two objects that hold the same handle
\* and names: the flag is clear, the device and the names are released.
C12_Witness ==
    \E x \in Objects :
        /\ live[x]
        /\ log = ReleaseCalls(obj[x])
        /\ ~alreadyCreated[TypeOf(x)]
        /\ gl = Gl0 /\ ~ovr.initialized /\ fatal = "none"

\* The fields of an object that hold the rendering pipeline.
Pipeline(o) ==
    [hmd_ |-> o.hmd_, FBOId_ |-> o.FBOId_, textureId_ |-> o.textureId_,
     depthBufferId_ |-> o.depthBufferId_, textureSize_ |-> o.textureSize_,
     textureSizeLeft_ |-> o.textureSizeLeft_, textureSizeRight_ |-> o.textureSizeRight_,
     usingDebugHmd_ |-> o.usingDebugHmd_, multisampleEnabled_ |-> o.multisampleEnabled_,
     eyeTexture_ |-> o.eyeTexture_]
\* The errors the queries of the recorded calls l reported.
ErrorsReported(l) == {i \in Places(l, "Utils::GLGetError") : l[i].args[1] = 1}
C13_Step ==
    \A x \in Objects :
        (live[x] /\ HasEv(log', "ovrHmd_BeginFrame")) =>
            /\ \A e \in Eyes :
                   \E i, j \in 1..Len(log') :
                       /\ i < j
                       /\ log'[i].ev = "ovrHmd_BeginEyeRender" /\ log'[i].eye = e
                       /\ log'[j].ev = "ovrHmd_EndEyeRender" /\ log'[j].eye = e
            /\ Cardinality(Places(log', "ovrHmd_BeginEyeRender")) = ovrEye_Count
            /\ Cardinality(Places(log', "ovrHmd_EndEyeRender")) = ovrEye_Count
            /\ Places(log', "ovrHmd_EndFrame") = {Len(log')}
            /\ fatal' = "none" /\ live'[x]
            /\ Pipeline(obj'[x]) = Pipeline(obj[x])
            /\ gl' = gl
\* C13: a graphics-API error reported during render() never aborts the
\* frame: whatever the error query reports for either eye, both eyes get
\* their BeginEyeRender and EndEyeRender, the frame reaches EndFrame, and the
\* device handle, the render-target ids, the sizes and the debug flag are as
\* they were before the frame.
C13_BestEffortFrame == [][C13_Step]_vars
\* A frame has been rendered during which the error query reported an error
\* after the scene render of both eyes.
C13_Witness ==
    \E x \in Objects :
        /\ Rendered(x)
        /\ Cardinality(ErrorsReported(log)) = ovrEye_Count
        /\ log[Len(log)].ev = "ovrHmd_EndFrame"

\* The combined size of the sizes the runtime reported to the last call.
ReportedCombined ==
    [w |-> Reported(ovrEye_Left).w + Reported(ovrEye_Right).w,
     h |-> IF Reported(ovrEye_Left).h > Reported(ovrEye_Right).h
           THEN Reported(ovrEye_Left).h ELSE Reported(ovrEye_Right).h]
ZeroSizeAsserts == {"assert(textureSize_.w != 0)", "assert(textureSize_.h != 0)"}
\* C14: when the combined size computed from the reported per-eye sizes has
\* a zero width or a zero height, the construction fails fatally in the
\* framebuffer setup: no framebuffer is allocated, rendering is not
\* configured, tracking is not started and the single-instance flag is not
\* set.
C14_ZeroSizeFatal ==
    (/\ HasEv(log, "ovrHmd_GetFovTextureSize")
     /\ (ReportedCombined.w = 0 \/ ReportedCombined.h = 0)) =>
        /\ fatal \in ZeroSizeAsserts
        /\ ~HasEv(log, "glGenFramebuffers")
        /\ ~HasEv(log, "ovrHmd_ConfigureRendering")
        /\ ~HasEv(log, "ovrHmd_StartSensor")
        /\ ~HasEv(log, "alreadyCreated = true")
        /\ \A x \in Objects : ~alreadyCreated[TypeOf(x)] /\ ~live[x]
        /\ \A h \in Handles : ~ovr.hmds[h].configured /\ ~ovr.hmds[h].sensorStarted
\* A construction has failed on a combined size of non-zero width and zero
\* height.
C14_Witness ==
    /\ HasEv(log, "ovrHmd_GetFovTextureSize")
    /\ ReportedCombined.w > 0 /\ ReportedCombined.h = 0
    /\ fatal = "assert(textureSize_.h != 0)"

\* The recorded call e is one of the four construction faults: the debug
\* device was not created (after the real one was not), the window
\* information was not retrieved, the framebuffer is not complete, the
\* runtime refused the rendering configuration.
IsFault(e) ==
    \/ e.ev = "ovrHmd_CreateDebug" /\ e.args[1] = 0
    \/ e.ev = "SDL_GetWindowWMInfo" /\ e.args[1] = 0
    \/ e.ev = "glCheckFramebufferStatus" /\ e.args[1] = 0
    \/ e.ev = "ovrHmd_ConfigureRendering" /\ e.args[9] = 0
Faulted(l) == \E i \in 1..Len(l) : IsFault(l[i])
C15_Step ==
    /\ Faulted(log') =>
           /\ IsFault(log'[Len(log')])
           /\ fatal' # "none"
           /\ ~HasEv(log', "ovrHmd_StartSensor")
           /\ ~HasEv(log', "alreadyCreated = true")
           /\ \A x \in Objects : ~alreadyCreated'[TypeOf(x)] /\ ~live'[x]
           /\ \A h \in Handles : ~ovr'.hmds[h].sensorStarted
    /\ ~Faulted(log)
    /\ fatal = "none"
\* C15: a construction in which neither device can be created, the window
\* information cannot be retrieved, the framebuffer is incomplete or the
\* runtime refuses the rendering configuration stops at that call: head
\* tracking is not started, the single-instance flag stays false, and no
\* member function runs after it.
C15_FaultStopsConstruction == [][C15_Step]_vars
\* A construction has stopped at the refusal of the rendering configuration,
\* with the framebuffer allocated and complete.
C15_Witness ==
    /\ Faulted(log)
    /\ log[Len(log)].ev = "ovrHmd_ConfigureRendering"
    /\ fatal = "assert(configurationRes)"
    /\ gl.fbos # {}

\* C16: the frame-timing token is read only inside the bracket of the frame
\* whose BeginFrame produced it: over any sequence of render() and getInput()
\* calls, every orientation sample is taken with the token of a frame that
\* has begun and not ended, never with the token of an ended frame and never
\* before the first BeginFrame.
C16_TokenInsideFrame ==
    \A i \in Places(log, "ovrHmd_GetSensorState") : log[i].args[2] = TokenOpenFrame

\* The device or a graphics name the object x holds is not allocated.
Released(x) ==
    \/ ~ovr.hmds[obj[x].hmd_].live
    \/ obj[x].FBOId_ \notin gl.fbos
    \/ obj[x].textureId_ \notin gl.texs /\ obj[x].textureId_ # 0
    \/ obj[x].depthBufferId_ \notin gl.rbos
C17_Step ==
    \A x \in Objects :
        live[x] =>
            IF live'[x]
            THEN /\ Pipeline(obj'[x]) = Pipeline(obj[x])
                 /\ Released(x)' /\ ~Released(x) => HasEv(log', "ovr_Shutdown")
            ELSE log' = ReleaseCalls(obj[x])
\* C17: once an object is constructed, no call of render(), getInput(),
\* setAngles(), isMoving() or isUsingDebugHmd() changes its debug flag, its
\* multisample flag, its device handle, its framebuffer, texture and depth
\* buffer ids, its texture sizes or its per-eye viewports; the only call that
\* releases them is the destructor.
C17_ConfigurationFrozen == [][C17_Step]_vars
\* A frame rendered on a real device has changed the angles of the object and
\* left its pipeline allocated.
C17_Witness ==
    \E x \in Objects :
        /\ Rendered(x)
        /\ obj[x].dAngles_ # Zero3
        /\ ~obj[x].usingDebugHmd_
        /\ obj[x].FBOId_ \in gl.fbos /\ obj[x].depthBufferId_ \in gl.rbos
        /\ obj[x].hmd_ \in LiveHandles

\* The first place of the call name in the recorded calls l (0 when absent).
FirstPlace(l, name) ==
    IF HasEv(l, name) THEN CHOOSE i \in Places(l, name) : \A j \in Places(l, name) : i <= j
    ELSE 0
\* The steps of a construction in the claimed order; the device creation is
\* the call that returned the handle.
ConstructionSteps ==
    <<"ovr_Initialize", "ovrHmd_Create", "ovrHmd_GetDesc", "ovrHmd_GetFovTextureSize",
      "glGenFramebuffers", "glGenTextures", "glGenRenderbuffers", "glCheckFramebufferStatus",
      "setEyeTexture", "ovrHmd_ConfigureRendering", "ovrHmd_StartSensor",
      "alreadyCreated = true">>
InClaimedOrder(l) ==
    /\ \A k \in 1..Len(ConstructionSteps) : HasEv(l, ConstructionSteps[k])
    /\ \A k \in 1..(Len(ConstructionSteps) - 1) :
           FirstPlace(l, ConstructionSteps[k]) < FirstPlace(l, ConstructionSteps[k + 1])
    /\ \A i \in Places(l, "ovrHmd_CreateDebug") :
           /\ FirstPlace(l, "ovrHmd_Create") < i /\ i < FirstPlace(l, "ovrHmd_GetDesc")
           /\ l[FirstPlace(l, "ovrHmd_Create")].args[1] = 0
    /\ Places(l, "alreadyCreated = true") = {Len(l)}
VpArgs(v) == <<v.x, v.y, v.w, v.h>>
\* The eye calls of the recorded calls l, and the eyes of its BeginEyeRender
\* calls in the order they were made.
EyeCalls(l) == Places(l, "ovrHmd_BeginEyeRender") \cup Places(l, "ovrHmd_EndEyeRender")
BeginOrder(l) ==
    LET B == Places(l, "ovrHmd_BeginEyeRender")
    IN  [k \in 1..Cardinality(B) |->
            l[CHOOSE i \in B : Cardinality({j \in B : j < i}) = k - 1].eye]
\* C19: within one frame the eyes are taken in EyeRenderOrder, and for each
\* eye e the viewport set before the scene renders is the viewport of e, the
\* pose submitted by EndEyeRender(e) is the pose BeginEyeRender(e) returned in
\* this frame, the texture submitted is the eye texture of e, and no eye call
\* of the other eye lies between BeginEyeRender(e) and EndEyeRender(e).
C19_EyePairing ==
    \A x \in Objects :
        Rendered(x) =>
            /\ BeginOrder(log) = obj[x].EyeRenderOrder
            /\ \A i \in Places(log, "ovrHmd_BeginEyeRender") :
                   LET e == log[i].eye
                       tex == obj[x].eyeTexture_[e]
                   IN  \E v, r, j \in 1..Len(log) :
                           /\ i < v /\ v < r /\ r < j
                           /\ log[v].ev = "glViewport" /\ log[v].eye = e
                           /\ log[v].args = VpArgs(tex.RenderViewport)
                           /\ log[r].ev = "scene.render" /\ log[r].eye = e
                           /\ log[r].args[1] = log[i].args[2]
                           /\ log[j].ev = "ovrHmd_EndEyeRender" /\ log[j].eye = e
                           /\ log[j].args[1] = log[i].args[1]
                           /\ log[j].args[2] = log[i].args[2]
                           /\ log[j].args[3] = tex.TexId
                           /\ <<log[j].args[4], log[j].args[5], log[j].args[6], log[j].args[7]>>
                                  = VpArgs(tex.RenderViewport)
                           /\ \A m \in EyeCalls(log) : ~(i < m /\ m < j)
\* A frame has been rendered right eye first, the runtime returning a
\* different pose for each eye, on eye textures with different viewports.
C19_Witness ==
    \E x \in Objects :
        /\ Rendered(x)
        /\ obj[x].EyeRenderOrder = <<ovrEye_Right, ovrEye_Left>>
        /\ BeginOrder(log) = <<ovrEye_Right, ovrEye_Left>>
        /\ \A i, j \in Places(log, "ovrHmd_BeginEyeRender") :
               i # j => log[i].args[2] # log[j].args[2]
        /\ LeftVp(x) # RightVp(x)

\* The calls that belong to a frame and take the device handle.
FrameBracketCalls == {"ovrHmd_BeginFrame", "ovrHmd_BeginEyeRender", "ovrHmd_EndEyeRender",
                      "ovrHmd_EndFrame"}
\* The BeginFrame and EndFrame calls of l alternate, starting with BeginFrame
\* and ending with EndFrame.
FramesAlternate(l) ==
    LET F == Places(l, "ovrHmd_BeginFrame") \cup Places(l, "ovrHmd_EndFrame")
        nth(k) == CHOOSE i \in F : Cardinality({j \in F : j < i}) = k - 1
    IN  /\ \A k \in 1..Cardinality(F) :
               l[nth(k)].ev = IF k % 2 = 1 THEN "ovrHmd_BeginFrame" ELSE "ovrHmd_EndFrame"
        /\ Cardinality(F) % 2 = 0
\* C20: in every reachable state the single-instance flag of a scene type is
\* true exactly when a fully constructed object of it exists; BeginFrame and
\* EndFrame alternate, starting with BeginFrame, and no frame is left open;
\* every BeginFrame, eye-render call and EndFrame is made on a non-null, live
\* device handle while the runtime is initialised (after ovr_Initialize and
\* before ovr_Shutdown).
C20_FlagAndFrames ==
    /\ \A T \in SceneTypes :
           alreadyCreated[T] <=> \E x \in Objects : TypeOf(x) = T /\ live[x]
    /\ FramesAlternate(log)
    /\ \A h \in Handles : ~ovr.hmds[h].frameOpen
    /\ \A i \in 1..Len(log) :
           log[i].ev \in FrameBracketCalls =>
               /\ log[i].args[1] # 0
               /\ log[i].args[1] \in LiveHandles
               /\ ovr.initialized

====
